---- MODULE Spec2Model ----
(***************************************************************************)
(* The cart / order consistency workflow of the meal-ordering client:      *)
(* the Meals page (addToCart), the Checkout page (loadCartItems,           *)
(* removeFromCart, updateQuantity, handlePlaceOrder), the browser's        *)
(* localStorage key "cart", and the tables meals, orders and order_items   *)
(* with their row-level policies; and the Admin page (checkAdminAccess,     *)
(* loadOrders, updateOrderStatus) over the orders table.                   *)
(*                                                                         *)
(* Prices are DECIMAL(10,2) columns; they are modelled in cents, so that   *)
(* price * quantity and the sums are exact.                                *)
(***************************************************************************)
EXTENDS Integers, Sequences, FiniteSets, TLC

(* ------------------------------ domains -------------------------------- *)

MealIds == {"A", "B"}
\* the order in which a select on meals returns its rows
MealOrder == <<"A", "B">>
Prices == {1890, 2000}
\* the nutrition columns of the two meals (integers, never edited here)
Nutrition ==
  [m \in MealIds |->
     IF m = "A" THEN [calories |-> 450, protein |-> 45, carbs |-> 40, fats |-> 12]
     ELSE [calories |-> 600, protein |-> 30, carbs |-> 70, fats |-> 20]]
Users == {"u1"}
\* the users with a row (user_id, 'admin') in user_roles
Admins == {"a1"}
NoUser == "none"
\* delivery addresses the user may type: empty, blank, padded text
Addresses == {<< >>, <<" ">>, <<" ", "x">>}
\* error messages the storage collaborator may return
ErrMessages == {"permission denied"}

\* the cart holds at most MaxUnits units, over all meals
MaxUnits == 2
MaxOrders == 1
MaxCalls == 1
MaxInFlight == 2
MaxLoads == 1
MaxCatalogEdits == 1
\* orders held when submissions are retried
MaxRetryOrders == 2

Routes == {"/auth", "/dashboard", "/meals", "/checkout"}

VARIABLES
  localStorage,     \* the browser's entry for key "cart": [has, value]
  meals,            \* table public.meals: id -> [price, is_available]
  catalogEdits,     \* how many times an administrator has edited meals
  orders,           \* table public.orders: sequence of rows, id = position
  order_items,      \* table public.order_items: set of rows
  session,          \* the authenticated user of the browser, or NoUser
  route,            \* the location the router was last sent to
  mounted,          \* the page whose component is rendered
  cartItems,        \* Checkout state: materialized line items
  loading,          \* Checkout state: submission in progress
  deliveryAddress,  \* Checkout state: the address text area
  loads,            \* loadCartItems queries awaiting their response
  calls,            \* handlePlaceOrder invocations awaiting a response
  mealsCart,        \* Meals state: cart
  mealsShown,       \* Meals state: meals (ids of the listed meals)
  toasts,           \* the toasts of handlePlaceOrder and of loadCartItems' error in the last step
  adminUser,        \* the user signed in at the browser that opens the Admin page
  adminPage,        \* Admin page: "checking" access, "shown", or "left"
  isAdmin,          \* Admin state: isAdmin
  adminLoading,     \* Admin state: loading
  adminOrders,      \* Admin state: orders (the list shown)
  adminLoads,       \* loadOrders queries awaiting their response
  adminUpdates      \* updateOrderStatus writes awaiting their response

vars == <<localStorage, meals, catalogEdits, orders, order_items, session, route, mounted,
          cartItems, loading, deliveryAddress, loads, calls, mealsCart, mealsShown, toasts,
          adminUser, adminPage, isAdmin, adminLoading, adminOrders, adminLoads, adminUpdates>>

dbVars == <<meals, catalogEdits, orders, order_items>>
checkoutVars == <<cartItems, loading, deliveryAddress, loads>>
mealsVars == <<mealsCart, mealsShown>>
adminVars == <<adminUser, adminPage, isAdmin, adminLoading, adminOrders, adminLoads, adminUpdates>>

(* ------------------------------ helpers -------------------------------- *)

\* what a step of handlePlaceOrder shows: nothing, or one toast({title, description})
NoToast == << >>
Toast(t, d) == <<[title |-> t, description |-> d]>>
Titles(ts) == [j \in 1..Len(ts) |-> ts[j].title]

RemoveAt(s, i) == SubSeq(s, 1, i - 1) \o SubSeq(s, i + 1, Len(s))

\* String.prototype.trim on a sequence of characters
IsSpace(c) == c = " "
RECURSIVE TrimStart(_)
TrimStart(s) == IF s # << >> /\ IsSpace(Head(s)) THEN TrimStart(Tail(s)) ELSE s
RECURSIVE TrimEnd(_)
TrimEnd(s) ==
  IF s # << >> /\ IsSpace(s[Len(s)]) THEN TrimEnd(SubSeq(s, 1, Len(s) - 1)) ELSE s
Trim(s) == TrimEnd(TrimStart(s))

\* JSON.stringify / JSON.parse of a Record<string, number>: the text is
\* modelled as its set of "key": value members
EmptyCart == [m \in {} |-> 0]
JSONstringify(cart) == {<<k, cart[k]>> : k \in DOMAIN cart}
JSONparse(text) ==
  [k \in {p[1] : p \in text} |-> (CHOOSE p \in text : p[1] = k)[2]]

\* the number of units a cart holds
RECURSIVE UnitsIn(_, _)
UnitsIn(cart, keys) ==
  IF keys = {} THEN 0
  ELSE LET k == CHOOSE x \in keys : TRUE IN cart[k] + UnitsIn(cart, keys \ {k})
Units(cart) == UnitsIn(cart, DOMAIN cart)

NoItem == [has |-> FALSE, value |-> {}]
SetItem(cart) == [has |-> TRUE, value |-> JSONstringify(cart)]

\* the page p is rendered and the router has not been sent elsewhere
Shown(p) == route = p /\ mounted = p

\* rows of meals a select by the browsing user returns (policy
\* "Anyone can view available meals")
VisibleMeals == {m \in MealIds : meals[m].is_available}

(* --------------------------- Checkout: cart ---------------------------- *)

\* data.map(meal => ({...meal, quantity: cart[meal.id]}))
CartItemsOf(cart, rows) ==
  LET ids == SelectSeq(MealOrder, LAMBDA m : m \in rows)
  IN  [j \in 1..Len(ids) |->
         [id |-> ids[j], price |-> meals[ids[j]].price,
          calories |-> meals[ids[j]].calories, protein |-> meals[ids[j]].protein,
          carbs |-> meals[ids[j]].carbs, fats |-> meals[ids[j]].fats,
          quantity |-> cart[ids[j]]]]

\* loadCartItems up to its await: an absent or empty cart empties cartItems
\* at once, otherwise the query for the cart's meal ids is sent
loadCartItems(ls) ==
  IF ~ls.has \/ DOMAIN JSONparse(ls.value) = {}
  THEN /\ cartItems' = << >>
       /\ loads' = loads
  ELSE /\ cartItems' = cartItems
       /\ loads' = Append(loads, JSONparse(ls.value))

\* whether loadCartItems(ls) would send a query (the model holds at most
\* MaxLoads of them)
LoadFits(ls) ==
  (ls.has /\ DOMAIN JSONparse(ls.value) # {}) => Len(loads) < MaxLoads

\* the meal ids of the rows a loadCartItems query for cart returns: the
\* visible meals among the cart's ids
FetchedIds(cart) == VisibleMeals \cap DOMAIN cart

\* the data branch with the quantity of every row taken as 1
LoadResponseUnitQuantity(i) ==
  /\ mounted = "/checkout"
  /\ i \in 1..Len(loads)
  /\ loads' = RemoveAt(loads, i)
  /\ cartItems' = CartItemsOf([m \in DOMAIN loads[i] |-> 1], FetchedIds(loads[i]))
  /\ toasts' = NoToast
  /\ UNCHANGED <<localStorage, dbVars, session, route, mounted, loading, deliveryAddress,
                 calls, mealsVars>>
  /\ UNCHANGED adminVars

\* the response of a loadCartItems query of the page shown, with data: the
\* rows joined with the cart read when the query was sent (a response to a
\* page no longer shown sets nothing)
LoadResponse(i) ==
  /\ mounted = "/checkout"
  /\ i \in 1..Len(loads)
  /\ loads' = RemoveAt(loads, i)
  /\ cartItems' = CartItemsOf(loads[i], FetchedIds(loads[i]))
  /\ toasts' = NoToast
  /\ UNCHANGED <<localStorage, dbVars, session, route, mounted, loading, deliveryAddress,
                 calls, mealsVars>>
  /\ UNCHANGED adminVars

\* the response of a loadCartItems query of the page shown, with an error:
\* a toast, and the line items stay as they are
LoadError(i) ==
  /\ mounted = "/checkout"
  /\ i \in 1..Len(loads)
  /\ loads' = RemoveAt(loads, i)
  /\ \E msg \in ErrMessages : toasts' = Toast("error loading cart", msg)
  /\ cartItems' = cartItems
  /\ UNCHANGED <<localStorage, dbVars, session, route, mounted, loading, deliveryAddress,
                 calls, mealsVars>>
  /\ UNCHANGED adminVars

\* the cart after delete cart[mealId]
WithoutKey(cart, mealId) == [k \in DOMAIN cart \ {mealId} |-> cart[k]]
\* the cart after cart[mealId] = quantity
WithKey(cart, mealId, quantity) ==
  [k \in DOMAIN cart \cup {mealId} |-> IF k = mealId THEN quantity ELSE cart[k]]

\* removeFromCart(mealId), as an effect on the state
removeFromCartBody(mealId) ==
  IF ~localStorage.has
  THEN UNCHANGED <<localStorage, cartItems, loads>> /\ toasts' = NoToast
  ELSE LET ls == SetItem(WithoutKey(JSONparse(localStorage.value), mealId))
       IN  /\ LoadFits(ls)
           /\ localStorage' = ls
           /\ loadCartItems(ls)
           /\ toasts' = NoToast

\* the trash button of a rendered line item
removeFromCart(j) ==
  /\ Shown("/checkout")
  /\ j \in 1..Len(cartItems)
  /\ removeFromCartBody(cartItems[j].id)
  /\ UNCHANGED <<dbVars, session, route, mounted, loading, deliveryAddress, calls, mealsVars>>
  /\ UNCHANGED adminVars

\* updateQuantity without its newQuantity < 1 test: the quantity is stored
\* whatever it is
updateQuantityBodyStoresAny(mealId, newQuantity) ==
  IF ~localStorage.has
  THEN UNCHANGED <<localStorage, cartItems, loads>> /\ toasts' = NoToast
  ELSE LET ls == SetItem(WithKey(JSONparse(localStorage.value), mealId, newQuantity))
       IN  /\ LoadFits(ls)
           /\ localStorage' = ls
           /\ loadCartItems(ls)
           /\ toasts' = NoToast

\* updateQuantity with its test one off: newQuantity < 0
updateQuantityBodyBelowZero(mealId, newQuantity) ==
  IF newQuantity < 0
  THEN removeFromCartBody(mealId)
  ELSE IF ~localStorage.has
  THEN UNCHANGED <<localStorage, cartItems, loads>> /\ toasts' = NoToast
  ELSE LET ls == SetItem(WithKey(JSONparse(localStorage.value), mealId, newQuantity))
       IN  /\ LoadFits(ls)
           /\ localStorage' = ls
           /\ loadCartItems(ls)
           /\ toasts' = NoToast

\* updateQuantity(mealId, newQuantity), as an effect on the state
updateQuantityBody(mealId, newQuantity) ==
  IF newQuantity < 1
  THEN removeFromCartBody(mealId)
  ELSE IF ~localStorage.has
  THEN UNCHANGED <<localStorage, cartItems, loads>> /\ toasts' = NoToast
  ELSE LET ls == SetItem(WithKey(JSONparse(localStorage.value), mealId, newQuantity))
       IN  /\ LoadFits(ls)
           /\ localStorage' = ls
           /\ loadCartItems(ls)
           /\ toasts' = NoToast

\* the - and + buttons of a rendered line item
updateQuantity(j, delta) ==
  /\ Shown("/checkout")
  /\ j \in 1..Len(cartItems)
  /\ localStorage.has =>
       Units(WithKey(JSONparse(localStorage.value), cartItems[j].id,
                     cartItems[j].quantity + delta)) <= MaxUnits
  /\ updateQuantityBody(cartItems[j].id, cartItems[j].quantity + delta)
  /\ UNCHANGED <<dbVars, session, route, mounted, loading, deliveryAddress, calls, mealsVars>>
  /\ UNCHANGED adminVars

\* the address text area's onChange
setDeliveryAddress(a) ==
  /\ Shown("/checkout")
  /\ a # deliveryAddress
  /\ deliveryAddress' = a
  /\ toasts' = NoToast
  /\ UNCHANGED <<localStorage, dbVars, session, route, mounted, cartItems, loading, loads,
                 calls, mealsVars>>
  /\ UNCHANGED adminVars

(* ------------------------ Checkout: submission ------------------------- *)

\* cartItems.reduce((sum, item) => sum + item.price * item.quantity, 0)
RECURSIVE totalPrice(_)
totalPrice(items) ==
  IF items = << >> THEN 0
  ELSE Head(items).price * Head(items).quantity + totalPrice(Tail(items))

\* cartItems.reduce over calories, protein, carbs and fats, each times quantity
RECURSIVE totalMacros(_)
totalMacros(items) ==
  IF items = << >> THEN [calories |-> 0, protein |-> 0, carbs |-> 0, fats |-> 0]
  ELSE LET acc == totalMacros(SubSeq(items, 1, Len(items) - 1))
           item == items[Len(items)]
       IN  [calories |-> acc.calories + item.calories * item.quantity,
            protein |-> acc.protein + item.protein * item.quantity,
            carbs |-> acc.carbs + item.carbs * item.quantity,
            fats |-> acc.fats + item.fats * item.quantity]

\* the address test without the trim
AddressMissingNoTrim(address) == address = << >>

\* !deliveryAddress.trim()
AddressMissing(address) == Trim(address) = << >>

\* the cart test left out
CartIsEmptyNever(items) == FALSE

\* cartItems.length === 0
CartIsEmpty(items) == Len(items) = 0

\* the disabled attribute of the place-order button
ButtonDisabled == loading \/ Len(cartItems) = 0

\* the test of the order write's result without its !order half
OrderRejectedErrorOnly(outcome) == outcome = "error"

\* orderError || !order, for the outcomes of the order write
OrderRejected(outcome) == outcome \in {"error", "norow"}

\* the order lines priced from the catalog as it is when they are built
orderItemsOfCatalogPrice(order_id, items) ==
  {[order_id |-> order_id, meal_id |-> items[j].id, quantity |-> items[j].quantity,
    price_at_purchase |-> meals[items[j].id].price] : j \in 1..Len(items)}

\* the order lines with one unit each, whatever the line item's quantity
orderItemsOfUnitQuantity(order_id, items) ==
  {[order_id |-> order_id, meal_id |-> items[j].id, quantity |-> 1,
    price_at_purchase |-> items[j].price] : j \in 1..Len(items)}

\* cartItems.map(item => ({order_id, meal_id, quantity, price_at_purchase}))
orderItemsOf(order_id, items) ==
  {[order_id |-> order_id, meal_id |-> items[j].id, quantity |-> items[j].quantity,
    price_at_purchase |-> items[j].price] : j \in 1..Len(items)}

\* the order row totalled from the page's line items as they are when the
\* write is sent
OrderRowCurrentTotal(c) ==
  [user_id |-> c.user, total_price |-> totalPrice(cartItems),
   delivery_address |-> c.deliveryAddress, status |-> "pending",
   payment_status |-> "pending"]

\* the row the order write inserts
OrderRow(c) ==
  [user_id |-> c.user, total_price |-> c.totalPrice,
   delivery_address |-> c.deliveryAddress, status |-> "pending",
   payment_status |-> "pending"]

\* the row as public.orders stores it: created_at defaults to now(), here the
\* number of the insert
StoredOrder(row, now) ==
  [user_id |-> row.user_id, total_price |-> row.total_price,
   delivery_address |-> row.delivery_address, status |-> row.status,
   payment_status |-> row.payment_status, created_at |-> now]

\* an invocation at its first await; it holds the cartItems, totalPrice and
\* deliveryAddress of the render whose handler was called
NewCall ==
  [pc |-> "getUser", cartItems |-> cartItems, totalPrice |-> totalPrice(cartItems),
   deliveryAddress |-> deliveryAddress, user |-> NoUser, order_id |-> 0,
   orderItems |-> {}, live |-> TRUE]

\* setLoading(v) by invocation c: a state update of an unmounted component
\* instance does nothing
setLoading(c, v) == loading' = IF c.live THEN v ELSE loading

\* navigate(to): the router is sent to another location; it renders the page
\* of that location later (Render)
navigate(to) == route' = to /\ mounted' = mounted

\* handlePlaceOrder up to its first await; cap bounds the invocations the
\* model keeps in flight
handlePlaceOrderBodyWithin(cap) ==
  IF AddressMissing(deliveryAddress)
  THEN /\ toasts' = Toast("delivery address required", "please enter your delivery address")
       /\ UNCHANGED <<loading, calls>>
  ELSE IF CartIsEmpty(cartItems)
  THEN /\ toasts' = Toast("cart is empty", "add some meals to your cart first")
       /\ UNCHANGED <<loading, calls>>
  ELSE /\ Len(calls) < cap
       /\ loading' = TRUE
       /\ calls' = Append(calls, NewCall)
       /\ toasts' = NoToast

handlePlaceOrderBody == handlePlaceOrderBodyWithin(MaxCalls)

\* a click on the place-order button
handlePlaceOrderWithin(cap) ==
  /\ Shown("/checkout")
  /\ ~ButtonDisabled
  /\ handlePlaceOrderBodyWithin(cap)
  /\ UNCHANGED <<localStorage, dbVars, session, route, mounted, cartItems, deliveryAddress,
                 loads, mealsVars>>
  /\ UNCHANGED adminVars

handlePlaceOrder == handlePlaceOrderWithin(MaxCalls)

\* supabase.auth.getUser() returns
GetUserReturn(i) ==
  /\ i \in 1..Len(calls)
  /\ calls[i].pc = "getUser"
  /\ IF session = NoUser
     THEN /\ navigate("/auth")
          /\ calls' = RemoveAt(calls, i)
     ELSE /\ calls' = [calls EXCEPT ![i].pc = "insertOrder", ![i].user = session]
          /\ UNCHANGED <<route, mounted>>
  /\ toasts' = NoToast
  /\ UNCHANGED <<localStorage, dbVars, session, checkoutVars, mealsVars>>
  /\ UNCHANGED adminVars

\* the continuation after the order write without the early return: the
\* order lines are sent whatever the order write returned
AfterOrderWriteNoReturn(i, outcome, msg) ==
  LET c == calls[i] IN
  /\ calls' = [calls EXCEPT ![i].pc = "insertItems",
                            ![i].order_id = Len(orders') + (IF outcome = "ok" THEN 0 ELSE 1),
                            ![i].orderItems =
                               orderItemsOf(Len(orders') + (IF outcome = "ok" THEN 0 ELSE 1),
                                            c.cartItems)]
  /\ toasts' = IF OrderRejected(outcome)
               THEN Toast("error placing order",
                          IF outcome = "error" THEN msg ELSE "unknown error")
               ELSE NoToast
  /\ loading' = loading

\* the continuation after the order write returned
AfterOrderWrite(i, outcome, msg) ==
  LET c == calls[i] IN
  IF OrderRejected(outcome)
  THEN /\ toasts' = Toast("error placing order",
                         IF outcome = "error" THEN msg ELSE "unknown error")
       /\ setLoading(c, FALSE)
       /\ calls' = RemoveAt(calls, i)
  ELSE /\ calls' = [calls EXCEPT ![i].pc = "insertItems",
                                 ![i].order_id = Len(orders'),
                                 ![i].orderItems = orderItemsOf(Len(orders'), c.cartItems)]
       /\ toasts' = NoToast
       /\ loading' = loading

\* the order write with a row that is already stored not inserted again
InsertOrderReturnDedup(i, cap) ==
  /\ i \in 1..Len(calls)
  /\ calls[i].pc = "insertOrder"
  /\ \E outcome \in {"ok", "error", "norow"}, msg \in ErrMessages :
       /\ outcome = "ok" => session = calls[i].user /\ Len(orders) < cap
       /\ orders' = IF outcome = "ok" /\ \A k \in 1..Len(orders) :
                                           StoredOrder(OrderRow(calls[i]), orders[k].created_at)
                                             # orders[k]
                    THEN Append(orders, StoredOrder(OrderRow(calls[i]), Len(orders) + 1))
                    ELSE orders
       /\ AfterOrderWrite(i, outcome, msg)
  /\ UNCHANGED <<localStorage, meals, catalogEdits, order_items, session, route, mounted, cartItems,
                 deliveryAddress, loads, mealsVars>>
  /\ UNCHANGED adminVars

\* the order write returns: the row is inserted when the policy "Users can
\* create their own orders" admits it and storage does not fail (the model
\* holds at most cap orders)
InsertOrderReturnWithin(i, cap) ==
  /\ i \in 1..Len(calls)
  /\ calls[i].pc = "insertOrder"
  /\ \E outcome \in {"ok", "error", "norow"}, msg \in ErrMessages :
       /\ outcome = "ok" => session = calls[i].user /\ Len(orders) < cap
       /\ orders' = IF outcome = "ok"
                    THEN Append(orders, StoredOrder(OrderRow(calls[i]), Len(orders) + 1))
                    ELSE orders
       /\ AfterOrderWrite(i, outcome, msg)
  /\ UNCHANGED <<localStorage, meals, catalogEdits, order_items, session, route, mounted, cartItems,
                 deliveryAddress, loads, mealsVars>>
  /\ UNCHANGED adminVars

InsertOrderReturn(i) == InsertOrderReturnWithin(i, MaxOrders)

\* the continuation after the order-lines write with the cart removed before
\* the result is looked at
AfterItemsWriteClearsAlways(i, failed, msg) ==
  LET c == calls[i] IN
  /\ localStorage' = NoItem
  /\ IF failed
     THEN /\ toasts' = Toast("error saving order items", msg)
          /\ UNCHANGED <<route, mounted>>
     ELSE /\ toasts' = Toast("order placed!", "your meal prep order has been confirmed")
          /\ navigate("/dashboard")
  /\ setLoading(c, FALSE)
  /\ calls' = RemoveAt(calls, i)

\* the continuation after the order-lines write with the cart never removed
AfterItemsWriteKeepsCart(i, failed, msg) ==
  LET c == calls[i] IN
  /\ localStorage' = localStorage
  /\ IF failed
     THEN /\ toasts' = Toast("error saving order items", msg)
          /\ UNCHANGED <<route, mounted>>
     ELSE /\ toasts' = Toast("order placed!", "your meal prep order has been confirmed")
          /\ navigate("/dashboard")
  /\ setLoading(c, FALSE)
  /\ calls' = RemoveAt(calls, i)

\* the continuation after the order-lines write returned
AfterItemsWrite(i, failed, msg) ==
  LET c == calls[i] IN
  /\ IF failed
     THEN /\ toasts' = Toast("error saving order items", msg)
          /\ UNCHANGED <<localStorage, route, mounted>>
     ELSE /\ localStorage' = NoItem
          /\ toasts' = Toast("order placed!", "your meal prep order has been confirmed")
          /\ navigate("/dashboard")
  /\ setLoading(c, FALSE)
  /\ calls' = RemoveAt(calls, i)

\* the order-lines write returns: the batch is inserted when the policy
\* "Users can create items for their orders" admits it and storage does not fail
InsertItemsReturn(i) ==
  /\ i \in 1..Len(calls)
  /\ calls[i].pc = "insertItems"
  /\ \E failed \in BOOLEAN, msg \in ErrMessages :
       /\ ~failed => /\ calls[i].order_id \in 1..Len(orders)
                     /\ orders[calls[i].order_id].user_id = session
       /\ order_items' = IF failed THEN order_items
                         ELSE order_items \cup calls[i].orderItems
       /\ AfterItemsWrite(i, failed, msg)
  /\ UNCHANGED <<meals, catalogEdits, orders, session, cartItems, deliveryAddress,
                 loads, mealsVars>>
  /\ UNCHANGED adminVars

(* ----------------------------- Meals page ------------------------------ *)

\* (newCart[mealId] || 0) + 1
Incremented(cart, mealId) == (IF mealId \in DOMAIN cart THEN cart[mealId] ELSE 0) + 1

\* the add-to-cart button of a listed meal
addToCart(mealId) ==
  /\ Shown("/meals")
  /\ mealId \in mealsShown
  /\ Units(WithKey(mealsCart, mealId, Incremented(mealsCart, mealId))) <= MaxUnits
  /\ LET newCart == WithKey(mealsCart, mealId, Incremented(mealsCart, mealId))
     IN  /\ mealsCart' = newCart
         /\ localStorage' = SetItem(newCart)
  /\ toasts' = NoToast
  /\ UNCHANGED <<dbVars, session, route, mounted, checkoutVars, calls, mealsShown>>
  /\ UNCHANGED adminVars

(* ----------------------------- navigation ------------------------------ *)

\* the buttons that navigate: Meals to the dashboard and to the checkout, the
\* checkout back to Meals, the dashboard to Meals and to the checkout
NavButtons ==
  {<<"/meals", "/dashboard">>, <<"/meals", "/checkout">>, <<"/checkout", "/meals">>,
   <<"/dashboard", "/meals">>, <<"/dashboard", "/checkout">>}

\* a click on one of them
NavigateClick(from, to) ==
  /\ <<from, to>> \in NavButtons
  /\ Shown(from)
  /\ from = "/dashboard" => session # NoUser
  /\ navigate(to)
  /\ toasts' = NoToast
  /\ UNCHANGED <<localStorage, dbVars, session, checkoutVars, calls, mealsVars>>
  /\ UNCHANGED adminVars

\* the router renders the page of its location: the page rendered until then
\* is unmounted and its state is gone (invocations of handlePlaceOrder keep
\* running, unmounted); a Checkout page starts from its useState initial
\* values and its effect runs loadCartItems; a Meals page reads the cart from
\* localStorage and lists the available meals (it shows no button before
\* loadMeals returned)
Render ==
  /\ mounted # route
  /\ mounted' = route
  /\ IF route = "/checkout"
     THEN /\ cartItems' = << >>
          /\ loading' = FALSE
          /\ deliveryAddress' = << >>
          /\ loads' = IF ~localStorage.has \/ DOMAIN JSONparse(localStorage.value) = {}
                      THEN << >>
                      ELSE <<JSONparse(localStorage.value)>>
          /\ UNCHANGED calls
     ELSE IF mounted = "/checkout"
     THEN /\ cartItems' = << >>
          /\ loading' = FALSE
          /\ deliveryAddress' = << >>
          /\ loads' = << >>
          /\ calls' = [i \in 1..Len(calls) |-> [calls[i] EXCEPT !.live = FALSE]]
     ELSE UNCHANGED <<checkoutVars, calls>>
  /\ IF route = "/meals"
     THEN /\ mealsCart' = IF localStorage.has THEN JSONparse(localStorage.value)
                          ELSE EmptyCart
          /\ \/ mealsShown' = VisibleMeals
             \/ mealsShown' = {}
     ELSE /\ mealsCart' = EmptyCart
          /\ mealsShown' = {}
  /\ toasts' = NoToast
  /\ UNCHANGED <<localStorage, dbVars, session, route>>
  /\ UNCHANGED adminVars

(* --------------------- dashboard and authentication -------------------- *)

\* the dashboard redirects a visitor without a session
DashboardRedirect ==
  /\ Shown("/dashboard")
  /\ session = NoUser
  /\ navigate("/auth")
  /\ toasts' = NoToast
  /\ UNCHANGED <<localStorage, dbVars, session, checkoutVars, calls, mealsVars>>
  /\ UNCHANGED adminVars

\* handleSignOut
handleSignOut ==
  /\ Shown("/dashboard")
  /\ session # NoUser
  /\ session' = NoUser
  /\ navigate("/auth")
  /\ toasts' = NoToast
  /\ UNCHANGED <<localStorage, dbVars, checkoutVars, calls, mealsVars>>
  /\ UNCHANGED adminVars

\* the authentication page signs a user in and sends the router to the dashboard
SignIn(u) ==
  /\ Shown("/auth")
  /\ session' = u
  /\ navigate("/dashboard")
  /\ toasts' = NoToast
  /\ UNCHANGED <<localStorage, dbVars, checkoutVars, calls, mealsVars>>
  /\ UNCHANGED adminVars

(* ------------------------------- catalog ------------------------------- *)

\* an administrator changes a meal's price (policy "Admins can manage meals")
SetPrice(m, p) ==
  /\ catalogEdits < MaxCatalogEdits
  /\ meals[m].price # p
  /\ meals' = [meals EXCEPT ![m].price = p]
  /\ catalogEdits' = catalogEdits + 1
  /\ toasts' = NoToast
  /\ UNCHANGED <<localStorage, orders, order_items, session, route, mounted, checkoutVars,
                 calls, mealsVars>>
  /\ UNCHANGED adminVars

\* an administrator lists or delists a meal
SetAvailable(m, b) ==
  /\ catalogEdits < MaxCatalogEdits
  /\ meals[m].is_available # b
  /\ meals' = [meals EXCEPT ![m].is_available = b]
  /\ catalogEdits' = catalogEdits + 1
  /\ toasts' = NoToast
  /\ UNCHANGED <<localStorage, orders, order_items, session, route, mounted, checkoutVars,
                 calls, mealsVars>>
  /\ UNCHANGED adminVars

(* ------------------------------ Admin page ----------------------------- *)

MaxAdminLoads == 1
MaxAdminUpdates == 1
\* orders stored when the Admin page is opened
MaxAdminOrders == 3

Statuses == {"pending", "processing", "completed"}

\* public.has_role(_user_id, _role): a row of user_roles says so
has_role(user_id, role) == role = "admin" /\ user_id \in Admins

\* the rows of public.orders with their ids
OrderRowsWithId ==
  {[id |-> k, user_id |-> orders[k].user_id, total_price |-> orders[k].total_price,
    delivery_address |-> orders[k].delivery_address, status |-> orders[k].status,
    payment_status |-> orders[k].payment_status, created_at |-> orders[k].created_at]
     : k \in 1..Len(orders)}

\* the rows a select on orders returns to actor: policies "Users can view
\* their own orders" and "Admins can view all orders"
SelectOrders(actor) ==
  {r \in OrderRowsWithId : actor = r.user_id \/ has_role(actor, "admin")}

\* the rows ordered by created_at ascending
RECURSIVE OrderByCreatedAtAscending(_)
OrderByCreatedAtAscending(rows) ==
  IF rows = {} THEN << >>
  ELSE LET r == CHOOSE x \in rows : \A y \in rows : y.created_at >= x.created_at
       IN  <<r>> \o OrderByCreatedAtAscending(rows \ {r})

\* .order("created_at", { ascending: false })
RECURSIVE OrderByCreatedAt(_)
OrderByCreatedAt(rows) ==
  IF rows = {} THEN << >>
  ELSE LET r == CHOOSE x \in rows : \A y \in rows : y.created_at <= x.created_at
       IN  <<r>> \o OrderByCreatedAt(rows \ {r})

\* the profile a select on profiles by id returns to actor, or the fallback
\* of loadOrders: policy "Users can view their own profile"
ProfileOf(actor, user_id) ==
  IF actor = user_id THEN [email |-> user_id, full_name |-> "null"]
  ELSE [email |-> "unknown", full_name |-> "null"]

\* Promise.all(ordersData.map(order => ({...order, profiles})))
WithProfiles(actor, rows) ==
  [j \in 1..Len(rows) |->
     [id |-> rows[j].id, user_id |-> rows[j].user_id, total_price |-> rows[j].total_price,
      delivery_address |-> rows[j].delivery_address, status |-> rows[j].status,
      payment_status |-> rows[j].payment_status, created_at |-> rows[j].created_at,
      profiles |-> ProfileOf(actor, rows[j].user_id)]]

\* orders.filter(o => o.status === "pending") and "completed"
pendingOrders == SelectSeq(adminOrders, LAMBDA o : o.status = "pending")
completedOrders == SelectSeq(adminOrders, LAMBDA o : o.status = "completed")

\* the statuses the buttons of an OrderCard pass for an order shown with status
OfferedStatuses(status) ==
  IF status = "pending" THEN {"processing", "completed"}
  ELSE IF status = "processing" THEN {"completed"}
  ELSE {}

\* update orders set status where id, with no policy on who updates
UpdateOrdersAnyone(actor, id, status) ==
  IF id \in 1..Len(orders) THEN [orders EXCEPT ![id].status = status] ELSE orders

\* update orders set status where id, issued by actor: policy "Admins can
\* update all orders" leaves the row out for anyone else
UpdateOrders(actor, id, status) ==
  IF id \in 1..Len(orders) /\ has_role(actor, "admin")
  THEN [orders EXCEPT ![id].status = status]
  ELSE orders

\* checkAdminAccess after its awaits: no user or no admin role leaves the
\* page, an admin gets the page and loadOrders is called
checkAdminAccess ==
  /\ adminPage = "checking"
  /\ IF adminUser = NoUser \/ ~has_role(adminUser, "admin")
     THEN /\ adminPage' = "left"
          /\ UNCHANGED <<isAdmin, adminLoads>>
     ELSE /\ adminPage' = "shown"
          /\ isAdmin' = TRUE
          /\ adminLoads' = adminLoads + 1
  /\ UNCHANGED <<localStorage, dbVars, session, route, mounted, checkoutVars, calls, mealsVars,
                 toasts, adminUser, adminLoading, adminOrders, adminUpdates>>

\* a loadOrders query returns: an error, or the rows ordered and joined
LoadOrdersReturn ==
  /\ adminPage = "shown"
  /\ adminLoads > 0
  /\ adminLoads' = adminLoads - 1
  /\ \E failed \in BOOLEAN :
       adminOrders' = IF failed THEN adminOrders
                      ELSE WithProfiles(adminUser, OrderByCreatedAt(SelectOrders(adminUser)))
  /\ adminLoading' = FALSE
  /\ UNCHANGED <<localStorage, dbVars, session, route, mounted, checkoutVars, calls, mealsVars,
                 toasts, adminUser, adminPage, isAdmin, adminUpdates>>

\* a button of the OrderCard of the j-th order shown: updateOrderStatus up to
\* its await
updateOrderStatus(j, status) ==
  /\ adminPage = "shown" /\ isAdmin /\ ~adminLoading
  /\ j \in 1..Len(adminOrders)
  /\ status \in OfferedStatuses(adminOrders[j].status)
  /\ Len(adminUpdates) < MaxAdminUpdates
  /\ adminUpdates' = Append(adminUpdates, [id |-> adminOrders[j].id, status |-> status])
  /\ UNCHANGED <<localStorage, dbVars, session, route, mounted, checkoutVars, calls, mealsVars,
                 toasts, adminUser, adminPage, isAdmin, adminLoading, adminOrders, adminLoads>>

\* the status write returns: an error, or the row is updated and loadOrders
\* is called
UpdateOrderStatusReturn(i) ==
  /\ i \in 1..Len(adminUpdates)
  /\ adminUpdates' = RemoveAt(adminUpdates, i)
  /\ \E failed \in BOOLEAN :
       IF failed
       THEN UNCHANGED <<orders, adminLoads>>
       ELSE /\ orders' = UpdateOrders(adminUser, adminUpdates[i].id, adminUpdates[i].status)
            /\ IF adminPage = "shown"
               THEN adminLoads < MaxAdminLoads /\ adminLoads' = adminLoads + 1
               ELSE adminLoads' = adminLoads
  /\ UNCHANGED <<localStorage, meals, catalogEdits, order_items, session, route, mounted,
                 checkoutVars, calls, mealsVars, toasts, adminUser, adminPage, isAdmin,
                 adminLoading, adminOrders>>

\* the back button of the Admin page
AdminBack ==
  /\ adminPage = "shown" /\ ~adminLoading
  /\ adminPage' = "left"
  /\ adminLoads' = 0
  /\ UNCHANGED <<localStorage, dbVars, session, route, mounted, checkoutVars, calls, mealsVars,
                 toasts, adminUser, isAdmin, adminLoading, adminOrders, adminUpdates>>

\* the signed-in user of the shop's browser issues a status update of an
\* order through the storage client
UserUpdateRequest(id, status) ==
  /\ session # NoUser
  /\ id \in 1..Len(orders)
  /\ orders' = UpdateOrders(session, id, status)
  /\ toasts' = NoToast
  /\ UNCHANGED <<localStorage, meals, catalogEdits, order_items, session, route, mounted,
                 checkoutVars, calls, mealsVars, adminVars>>

(* ---------------------------- specification ---------------------------- *)

\* a browser without a stored cart opens the Meals page; the catalog lists
\* every meal
InitFor(visitors) ==
  /\ localStorage = NoItem
  /\ meals = [m \in MealIds |->
                [price |-> 1890, is_available |-> TRUE, calories |-> Nutrition[m].calories,
                 protein |-> Nutrition[m].protein, carbs |-> Nutrition[m].carbs,
                 fats |-> Nutrition[m].fats]]
  /\ catalogEdits = 0
  /\ orders = << >>
  /\ order_items = {}
  /\ session \in Users \cup {NoUser}
  /\ route = "/meals"
  /\ mounted = "/meals"
  /\ cartItems = << >>
  /\ loading = FALSE
  /\ deliveryAddress = << >>
  /\ loads = << >>
  /\ calls = << >>
  /\ mealsCart = EmptyCart
  /\ mealsShown = MealIds
  /\ toasts = NoToast
  /\ adminUser \in visitors
  /\ adminPage = "checking"
  /\ isAdmin = FALSE
  /\ adminLoading = TRUE
  /\ adminOrders = << >>
  /\ adminLoads = 0
  /\ adminUpdates = << >>

Init == InitFor(Admins)

Next ==
  \/ \E m \in MealIds : addToCart(m)
  \/ \E from \in Routes, to \in Routes : NavigateClick(from, to)
  \/ Render
  \/ \E i \in 1..MaxLoads : LoadResponse(i)
  \/ \E i \in 1..MaxLoads : LoadError(i)
  \/ \E j \in 1..Cardinality(MealIds) : removeFromCart(j)
  \/ \E j \in 1..Cardinality(MealIds), delta \in {-1, 1} : updateQuantity(j, delta)
  \/ \E a \in Addresses : setDeliveryAddress(a)
  \/ handlePlaceOrder
  \/ \E i \in 1..MaxCalls : GetUserReturn(i)
  \/ \E i \in 1..MaxCalls : InsertOrderReturn(i)
  \/ \E i \in 1..MaxCalls : InsertItemsReturn(i)
  \/ DashboardRedirect
  \/ handleSignOut
  \/ \E u \in Users : SignIn(u)
  \/ \E m \in MealIds, p \in Prices : SetPrice(m, p)
  \/ \E m \in MealIds, b \in BOOLEAN : SetAvailable(m, b)

Spec == Init /\ [][Next]_vars

\* handlePlaceOrder called whatever the place-order button's disabled
\* attribute: the handler's own contract
handlePlaceOrderCalled ==
  /\ Shown("/checkout")
  /\ handlePlaceOrderBody
  /\ UNCHANGED <<localStorage, dbVars, session, route, mounted, cartItems, deliveryAddress,
                 loads, mealsVars>>
  /\ UNCHANGED adminVars

NextHandler == Next \/ handlePlaceOrderCalled

SpecHandler == Init /\ [][NextHandler]_vars

\* quantities below 1
QuantitiesBelowOne == {-1, 0}

\* updateQuantity called on the Checkout page for any meal with a quantity
\* below 1, and removeFromCart called for any meal: the functions' own
\* contract, whatever the rendered buttons pass
updateQuantityCalled(mealId, newQuantity) ==
  /\ Shown("/checkout")
  /\ newQuantity \in QuantitiesBelowOne
  /\ updateQuantityBody(mealId, newQuantity)
  /\ UNCHANGED <<dbVars, session, route, mounted, loading, deliveryAddress, calls, mealsVars>>
  /\ UNCHANGED adminVars

removeFromCartCalled(mealId) ==
  /\ Shown("/checkout")
  /\ removeFromCartBody(mealId)
  /\ UNCHANGED <<dbVars, session, route, mounted, loading, deliveryAddress, calls, mealsVars>>
  /\ UNCHANGED adminVars

\* the cart's operations alone: the two pages' buttons and these calls
NextCartCalls ==
  \/ \E m \in MealIds : addToCart(m)
  \/ \E from \in Routes, to \in Routes : NavigateClick(from, to)
  \/ Render
  \/ \E i \in 1..MaxLoads : LoadResponse(i)
  \/ \E i \in 1..MaxLoads : LoadError(i)
  \/ \E j \in 1..Cardinality(MealIds) : removeFromCart(j)
  \/ \E j \in 1..Cardinality(MealIds), delta \in {-1, 1} : updateQuantity(j, delta)
  \/ \E m \in MealIds, q \in QuantitiesBelowOne : updateQuantityCalled(m, q)
  \/ \E m \in MealIds : removeFromCartCalled(m)

SpecCartCalls == Init /\ [][NextCartCalls]_vars

\* the signed-in user's cart and submissions alone (no catalog edit, no sign
\* out), with room for the orders of retried submissions
InitRetry == Init /\ session \in Users

NextRetry ==
  \/ \E m \in MealIds : addToCart(m)
  \/ \E from \in Routes, to \in Routes : NavigateClick(from, to)
  \/ Render
  \/ \E i \in 1..MaxLoads : LoadResponse(i)
  \/ \E i \in 1..MaxLoads : LoadError(i)
  \/ \E j \in 1..Cardinality(MealIds) : removeFromCart(j)
  \/ \E j \in 1..Cardinality(MealIds), delta \in {-1, 1} : updateQuantity(j, delta)
  \/ \E a \in Addresses : setDeliveryAddress(a)
  \/ handlePlaceOrder
  \/ \E i \in 1..MaxCalls : GetUserReturn(i)
  \/ \E i \in 1..MaxCalls : InsertOrderReturnWithin(i, MaxRetryOrders)
  \/ \E i \in 1..MaxCalls : InsertItemsReturn(i)

SpecRetry == InitRetry /\ [][NextRetry]_vars

\* one signed-in user with one meal and one address, who may leave the
\* Checkout page and come back while submissions are awaiting their
\* responses; room for MaxInFlight invocations and their orders
NextInFlight ==
  \/ addToCart("A")
  \/ \E from \in Routes, to \in Routes : NavigateClick(from, to)
  \/ Render
  \/ \E i \in 1..MaxLoads : LoadResponse(i)
  \/ setDeliveryAddress(<<" ", "x">>)
  \/ handlePlaceOrderWithin(MaxInFlight)
  \/ \E i \in 1..MaxInFlight : GetUserReturn(i)
  \/ \E i \in 1..MaxInFlight : InsertOrderReturnWithin(i, MaxRetryOrders)
  \/ \E i \in 1..MaxInFlight : InsertItemsReturn(i)

SpecInFlight == InitRetry /\ [][NextInFlight]_vars

\* the Admin page over a table of orders stored earlier, in any statuses and
\* with any order of their creation times
RECURSIVE OrderTables(_)
OrderTables(n) ==
  IF n = 0 THEN {<< >>}
  ELSE {Append(t, [user_id |-> u, total_price |-> 1890, delivery_address |-> <<" ", "x">>,
                   status |-> st, payment_status |-> "pending", created_at |-> at])
          : t \in OrderTables(n - 1), u \in Users, st \in Statuses, at \in 1..MaxAdminOrders}

DistinctTimes(t) == \A j, k \in 1..Len(t) : j # k => t[j].created_at # t[k].created_at

InitAdmin ==
  /\ localStorage = NoItem
  /\ meals = [m \in MealIds |->
                [price |-> 1890, is_available |-> TRUE, calories |-> Nutrition[m].calories,
                 protein |-> Nutrition[m].protein, carbs |-> Nutrition[m].carbs,
                 fats |-> Nutrition[m].fats]]
  /\ catalogEdits = 0
  /\ orders \in {t \in UNION {OrderTables(n) : n \in 0..MaxAdminOrders} : DistinctTimes(t)}
  /\ order_items = {}
  /\ session \in Users
  /\ route = "/meals"
  /\ mounted = "/meals"
  /\ cartItems = << >>
  /\ loading = FALSE
  /\ deliveryAddress = << >>
  /\ loads = << >>
  /\ calls = << >>
  /\ mealsCart = EmptyCart
  /\ mealsShown = MealIds
  /\ toasts = NoToast
  /\ adminUser \in Admins \cup Users
  /\ adminPage = "checking"
  /\ isAdmin = FALSE
  /\ adminLoading = TRUE
  /\ adminOrders = << >>
  /\ adminLoads = 0
  /\ adminUpdates = << >>

NextAdmin ==
  \/ checkAdminAccess
  \/ LoadOrdersReturn
  \/ \E j \in 1..MaxAdminOrders, status \in Statuses : updateOrderStatus(j, status)
  \/ \E i \in 1..MaxAdminUpdates : UpdateOrderStatusReturn(i)
  \/ AdminBack

SpecAdmin == InitAdmin /\ [][NextAdmin]_vars

\* one user's submissions of one meal, the Admin page opened by an
\* administrator or by an ordinary user, and status updates issued by the
\* shop's user
InitStatus == InitFor(Admins \cup Users) /\ session \in Users

NextStatus ==
  \/ addToCart("A")
  \/ \E from \in Routes, to \in Routes : NavigateClick(from, to)
  \/ Render
  \/ \E i \in 1..MaxLoads : LoadResponse(i)
  \/ setDeliveryAddress(<<" ", "x">>)
  \/ handlePlaceOrder
  \/ \E i \in 1..MaxCalls : GetUserReturn(i)
  \/ \E i \in 1..MaxCalls : InsertOrderReturn(i)
  \/ \E i \in 1..MaxCalls : InsertItemsReturn(i)
  \/ checkAdminAccess
  \/ LoadOrdersReturn
  \/ \E j \in 1..MaxOrders, status \in Statuses : updateOrderStatus(j, status)
  \/ \E i \in 1..MaxAdminUpdates : UpdateOrderStatusReturn(i)
  \/ AdminBack
  \/ \E id \in 1..MaxOrders, status \in Statuses : UserUpdateRequest(id, status)

SpecStatus == InitStatus /\ [][NextStatus]_vars

(* ------------------------------- claims -------------------------------- *)

\* invocation i settles in this step
Ended(i) == i \in 1..Len(calls) /\ calls' = RemoveAt(calls, i)
\* invocation i moves on to its next await in this step
Advanced(i) ==
  i \in 1..Len(calls) /\ Len(calls') = Len(calls) /\ calls'[i].pc # calls[i].pc
\* the order lines stored for order k
LinesOf(k) == {r \in order_items : r.order_id = k}
\* the sum of price_at_purchase * quantity over a set of order lines
RECURSIVE SumLines(_)
SumLines(rows) ==
  IF rows = {} THEN 0
  ELSE LET r == CHOOSE x \in rows : TRUE
       IN  r.price_at_purchase * r.quantity + SumLines(rows \ {r})

\* C1: when the order-lines write fails after the order write succeeded, the
\* step leaves localStorage's cart as it was, deletes nothing (orders and
\* order_items are unchanged), and the order of that invocation is stored
\* with no order line.
C1_LinesFailureLeavesCartAndOrder ==
  [][\A i \in 1..Len(calls) :
       (calls[i].pc = "insertItems" /\ Ended(i) /\ order_items' = order_items)
       => /\ Titles(toasts') = <<"error saving order items">>
          /\ localStorage' = localStorage
          /\ orders' = orders
          /\ calls[i].order_id \in 1..Len(orders')
          /\ {r \in order_items' : r.order_id = calls[i].order_id} = {}]_vars

\* C1 happens: the lines write has just failed, the cart is still stored and
\* the order sits in orders without lines
C1_Witness ==
  /\ Titles(toasts) = <<"error saving order items">>
  /\ localStorage.has /\ localStorage.value # {}
  /\ Len(orders) = 1 /\ LinesOf(1) = {}

\* C2: when storage rejects the order write (an error, or no row), the step
\* shows the error-placing-order toast with the storage message (or "unknown
\* error"), ends the invocation without sending the order-lines write, and
\* leaves the cart and the tables as they were.
C2_OrderRejectionStops ==
  [][\A i \in 1..Len(calls) :
       (calls[i].pc = "insertOrder" /\ (Ended(i) \/ Advanced(i)) /\ orders' = orders)
       => /\ Titles(toasts') = <<"error placing order">>
          /\ toasts'[1].description \in ErrMessages \cup {"unknown error"}
          /\ Ended(i)
          /\ localStorage' = localStorage
          /\ order_items' = order_items]_vars

\* C2 happens: the order write has just been rejected with the cart stored
C2_Witness ==
  /\ Titles(toasts) = <<"error placing order">>
  /\ toasts[1].description = "unknown error"
  /\ localStorage.has /\ localStorage.value # {}
  /\ orders = << >> /\ order_items = {} /\ calls = << >>

\* C3: the step in which the order lines are stored removes the cart from
\* localStorage, shows the confirmation and navigates to the dashboard; and a
\* step of the workflow that stores no order lines (a rejection, an abort, a
\* failed write) leaves localStorage as it was.
C3_CartClearedExactlyOnSuccess ==
  [][/\ order_items' # order_items
        => /\ ~localStorage'.has
           /\ route' = "/dashboard"
           /\ Titles(toasts') = <<"order placed!">>
     /\ ((calls' # calls \/ toasts' # NoToast) /\ order_items' = order_items)
        => localStorage' = localStorage]_vars

\* C3 happens: an order has just been placed from a stored cart
C3_Witness ==
  /\ Titles(toasts) = <<"order placed!">>
  /\ ~localStorage.has
  /\ route = "/dashboard"
  /\ Len(orders) = 1 /\ LinesOf(1) # {}

\* C4: every stored order's total_price equals the sum of price_at_purchase *
\* quantity over the order lines submitted with it: over the lines the
\* invocation has sent for it, and over the lines stored for it.
C4_TotalIsSumOfLines ==
  /\ \A i \in 1..Len(calls) :
       calls[i].pc = "insertItems" /\ calls[i].order_id \in 1..Len(orders)
       => orders[calls[i].order_id].total_price = SumLines(calls[i].orderItems)
  /\ \A k \in 1..Len(orders) :
       LinesOf(k) # {} => orders[k].total_price = SumLines(LinesOf(k))

\* C4 happens: a two-line order is in flight while the page's line items were
\* edited and a catalog price was changed after the submission
C4_Witness ==
  \E i \in 1..Len(calls) :
    /\ calls[i].pc = "insertItems"
    /\ Cardinality(calls[i].orderItems) = 2
    /\ route = "/checkout" /\ cartItems # calls[i].cartItems
    /\ \E r \in calls[i].orderItems : meals[r.meal_id].price # r.price_at_purchase

\* C5: a click on place order with an address that is empty after trimming
\* shows the delivery-address-required toast, starts no invocation (so no
\* order write and no order-lines write) and leaves the tables and the cart
\* as they were.
C5_BlankAddressRejected ==
  [][(handlePlaceOrder /\ Trim(deliveryAddress) = << >>)
     => /\ Titles(toasts') = <<"delivery address required">>
        /\ calls' = calls
        /\ UNCHANGED <<orders, order_items, localStorage>>]_vars

\* C5 happens: a whitespace-only address was rejected with line items shown
C5_Witness ==
  /\ Titles(toasts) = <<"delivery address required">>
  /\ deliveryAddress = <<" ">>
  /\ cartItems # << >>
  /\ ~loading
  /\ calls = << >>

\* C6: handlePlaceOrder called with no line items shows the
\* cart-is-empty toast and starts no invocation, whatever the address.
C6_EmptyCartAlwaysEmptyCartRejection ==
  [][(handlePlaceOrderCalled /\ Len(cartItems) = 0)
     => /\ Titles(toasts') = <<"cart is empty">>
        /\ calls' = calls
        /\ UNCHANGED <<orders, order_items, localStorage>>]_vars

\* C7: when the address is empty after trimming and there is no
\* line item, the call reports both rejections.
C7_BothRejectionsReported ==
  [][(handlePlaceOrderCalled /\ Trim(deliveryAddress) = << >> /\ Len(cartItems) = 0)
     => \A t \in {"delivery address required", "cart is empty"} :
          \E j \in 1..Len(toasts') : toasts'[j].title = t]_vars

\* C8: when getUser returns no user, the invocation navigates to
\* /auth and ends having changed nothing: the tables and the cart are as
\* they were, and the page's loading flag is back to what it was before the
\* attempt (not loading).
C8_AbortLeavesNoTrace ==
  [][\A i \in 1..Len(calls) :
       (calls[i].pc = "getUser" /\ calls[i].live /\ Ended(i))
       => /\ route' = "/auth"
          /\ UNCHANGED <<orders, order_items, localStorage>>
          /\ ~loading']_vars

\* C9: an invocation that has sent the order-lines write holds the id of an
\* order that is stored, owned by its user, and its lines carry that id; an
\* invocation that has not yet had the order write's result has no order id
\* and no lines; and every stored order line references a stored order.
C9_LinesOnlyAfterOrder ==
  /\ \A i \in 1..Len(calls) :
       IF calls[i].pc = "insertItems"
       THEN /\ calls[i].order_id \in 1..Len(orders)
            /\ orders[calls[i].order_id].user_id = calls[i].user
            /\ calls[i].orderItems # {}
            /\ \A r \in calls[i].orderItems : r.order_id = calls[i].order_id
       ELSE calls[i].order_id = 0 /\ calls[i].orderItems = {}
  /\ \A r \in order_items : r.order_id \in 1..Len(orders)

\* C9 happens: the order-lines write is in flight for the order just stored
C9_Witness ==
  \E i \in 1..Len(calls) :
    /\ calls[i].pc = "insertItems"
    /\ calls[i].order_id = Len(orders)
    /\ Len(orders) >= 1
    /\ LinesOf(calls[i].order_id) = {}

\* C10: the order lines an invocation sends carry, for each line item of the
\* render it was called from, that item's materialized price as
\* price_at_purchase; and a change of the catalog's prices changes neither
\* the page's line items, nor an invocation in flight, nor a stored order or
\* order line.
C10_PriceIsMaterializedPrice ==
  [][/\ \A i \in 1..Len(calls') :
          calls'[i].pc = "insertItems"
          => /\ Cardinality(calls'[i].orderItems) = Len(calls'[i].cartItems)
             /\ \A j \in 1..Len(calls'[i].cartItems) :
                  \E r \in calls'[i].orderItems :
                    /\ r.meal_id = calls'[i].cartItems[j].id
                    /\ r.price_at_purchase = calls'[i].cartItems[j].price
     /\ meals' # meals => UNCHANGED <<cartItems, calls, orders, order_items>>
     /\ order_items' # order_items
        => \E i \in 1..Len(calls) :
             /\ Ended(i)
             /\ order_items' = order_items \cup calls[i].orderItems]_vars

\* C10 happens: an order line is stored whose price_at_purchase is the
\* materialized price while the catalog now lists another price
C10_Witness ==
  \E r \in order_items :
    /\ meals[r.meal_id].price # r.price_at_purchase
    /\ orders[r.order_id].total_price = SumLines(LinesOf(r.order_id))


\* C11: the step in which an invocation's order lines are stored leaves that
\* invocation's one order (no order is added or changed by the step, and the
\* order had no line before) with exactly one line per line item of the render
\* it was called from, carrying the item's id, quantity and price, a total
\* equal to the sum over those items, and no cart in localStorage; a cart
\* {A: 2} with A at 18.90 gives a total of 37.80 and the one line (A, 2, 18.90).
\* And a step adds at most one order.
C11_SuccessStoresOneOrderAndItsLines ==
  [][/\ \A i \in 1..Len(calls) :
          (calls[i].pc = "insertItems" /\ Ended(i) /\ order_items' # order_items)
          => LET c == calls[i]
                 lines == {r \in order_items' : r.order_id = c.order_id}
             IN  /\ orders' = orders
                 /\ c.order_id \in 1..Len(orders)
                 /\ LinesOf(c.order_id) = {}
                 /\ order_items' \ lines = order_items
                 /\ Cardinality(lines) = Len(c.cartItems)
                 /\ \A j \in 1..Len(c.cartItems) :
                      Cardinality({r \in lines :
                                     /\ r.meal_id = c.cartItems[j].id
                                     /\ r.quantity = c.cartItems[j].quantity
                                     /\ r.price_at_purchase = c.cartItems[j].price}) = 1
                 /\ orders[c.order_id].total_price = totalPrice(c.cartItems)
                 /\ ~localStorage'.has
                 /\ (/\ Len(c.cartItems) = 1
                     /\ c.cartItems[1].id = "A"
                     /\ c.cartItems[1].quantity = 2
                     /\ c.cartItems[1].price = 1890)
                    => /\ orders[c.order_id].total_price = 3780
                       /\ lines = {[order_id |-> c.order_id, meal_id |-> "A",
                                    quantity |-> 2, price_at_purchase |-> 1890]}
     /\ Len(orders') \in {Len(orders), Len(orders) + 1}]_vars

\* C11 happens: the cart {A: 2} with A at 18.90 has just been ordered
C11_Witness ==
  /\ Titles(toasts) = <<"order placed!">>
  /\ ~localStorage.has
  /\ Len(orders) = 1 /\ orders[1].total_price = 3780
  /\ order_items = {[order_id |-> 1, meal_id |-> "A", quantity |-> 2,
                     price_at_purchase |-> 1890]}


\* C12: the step in which an invocation's order-lines write fails leaves the
\* cart in localStorage and the page's line items as they were and, for the
\* page the invocation was called from, resets loading, so that place order can
\* be clicked again; and every order write that passes adds one row to orders,
\* with an id of its own, beside the rows already stored (also beside a row with
\* the same owner, total and address), and no step removes a row: k order
\* writes that pass leave k rows.
C12_RetryAddsAnotherOrder ==
  [][/\ \A i \in 1..Len(calls) :
          (calls[i].pc = "insertItems" /\ Ended(i) /\ order_items' = order_items)
          => /\ localStorage' = localStorage
             /\ cartItems' = cartItems
             /\ calls[i].live => (~loading' /\ (ButtonDisabled' <=> cartItems = << >>))
     /\ \A i \in 1..Len(calls) :
          (calls[i].pc = "insertOrder" /\ Advanced(i))
          => /\ Len(orders') = Len(orders) + 1
             /\ SubSeq(orders', 1, Len(orders)) = orders
             /\ calls'[i].order_id = Len(orders')
             /\ calls'[i].order_id \notin {calls[j].order_id : j \in 1..Len(calls)}
     /\ Len(orders') >= Len(orders)]_vars

\* C12 happens: the lines write of the first submission failed, the cart
\* stayed, and the retry has stored a second order like the first
C12_Witness ==
  /\ Len(orders) = 2
  /\ orders[2] = [orders[1] EXCEPT !.created_at = 2]
  /\ LinesOf(1) = {}
  /\ LinesOf(2) # {}


\* C13: the step that stores an invocation's order lines leaves no cart in
\* localStorage; only addToCart brings a cart back; and while there is no cart
\* in localStorage no invocation starts and no order is added: the Checkout
\* page shows no line item, its place-order button is disabled, and a call of
\* handlePlaceOrder is rejected.
C13_NoResubmissionAfterSuccess ==
  [][/\ order_items' # order_items => ~localStorage'.has
     /\ (~localStorage.has /\ localStorage'.has) => \E m \in MealIds : addToCart(m)
     /\ ~localStorage.has
        => /\ Len(calls') <= Len(calls)
           /\ calls = << >> => orders' = orders
           /\ Shown("/checkout") => (cartItems = << >> /\ ButtonDisabled)
           /\ handlePlaceOrderCalled
              => Titles(toasts') \in {<<"delivery address required">>, <<"cart is empty">>}]_vars

\* C13 happens: after an order was placed the Checkout page was opened again
\* and a call of handlePlaceOrder with an address was rejected
C13_Witness ==
  /\ Titles(toasts) = <<"cart is empty">>
  /\ Shown("/checkout")
  /\ ~localStorage.has
  /\ Len(orders) = 1 /\ LinesOf(1) # {}
  /\ calls = << >>


\* C14: in every reachable state every entry of the cart in localStorage has
\* an integer quantity of at least 1.
C14_StoredQuantitiesPositive ==
  localStorage.has => \A e \in localStorage.value : e[2] \in Nat /\ e[2] >= 1

\* C14 happens: the last unit of the only entry was taken away on the Checkout
\* page, and the cart is stored without that entry
C14_Witness ==
  /\ localStorage.has
  /\ localStorage.value = {}
  /\ mounted = "/checkout"
  /\ orders = << >>


\* C15: for every meal id and every quantity below 1, a call
\* updateQuantity(id, quantity) is a call removeFromCart(id): from the same
\* state either one leads to the same state, whose cart in localStorage is the
\* one before without the entry of id (and no cart if there was none).
C15_UpdateBelowOneIsRemove ==
  [][\A m \in MealIds :
       /\ \A q \in QuantitiesBelowOne :
            /\ updateQuantityCalled(m, q) => removeFromCartCalled(m)
            /\ removeFromCartCalled(m) => updateQuantityCalled(m, q)
       /\ removeFromCartCalled(m)
          => localStorage' = IF localStorage.has
                             THEN [has |-> TRUE,
                                   value |-> {e \in localStorage.value : e[1] # m}]
                             ELSE localStorage]_vars

\* C15 happens: one of two entries was taken out of the stored cart while the
\* page still shows both line items
C15_Witness ==
  /\ localStorage.has
  /\ Cardinality(localStorage.value) = 1
  /\ Len(cartItems) = 2
  /\ loads # << >>


\* the sum over the meal ids of a set of a per-unit amount times the cart's quantity
RECURSIVE SumOverIds(_, _, _)
SumOverIds(ids, cart, amount) ==
  IF ids = {} THEN 0
  ELSE LET m == CHOOSE x \in ids : TRUE
       IN  amount[m] * cart[m] + SumOverIds(ids \ {m}, cart, amount)

\* C16: when a loadCartItems query returns its rows, an entry of the cart it
\* read whose meal is not among the rows gives no line item, adds nothing to
\* the price and nutrition totals, and no error is shown; every entry whose
\* meal is among the rows gives exactly one line item, with the entry's quantity.
C16_UnmatchedEntriesDropped ==
  [][\A i \in 1..Len(loads) :
       LoadResponse(i)
       => LET cart == loads[i]
              matched == {m \in DOMAIN cart : meals[m].is_available}
              items == cartItems'
          IN  /\ toasts' = NoToast
              /\ Len(items) = Cardinality(matched)
              /\ \A m \in DOMAIN cart :
                   Cardinality({j \in 1..Len(items) : items[j].id = m})
                     = IF m \in matched THEN 1 ELSE 0
              /\ \A j \in 1..Len(items) : items[j].quantity = cart[items[j].id]
              /\ totalPrice(items) = SumOverIds(matched, cart, [m \in MealIds |-> meals[m].price])
              /\ totalMacros(items) =
                   [calories |-> SumOverIds(matched, cart, [m \in MealIds |-> Nutrition[m].calories]),
                    protein |-> SumOverIds(matched, cart, [m \in MealIds |-> Nutrition[m].protein]),
                    carbs |-> SumOverIds(matched, cart, [m \in MealIds |-> Nutrition[m].carbs]),
                    fats |-> SumOverIds(matched, cart, [m \in MealIds |-> Nutrition[m].fats])]]_vars

\* C16 happens: the stored cart has two entries, one of a meal the catalog no
\* longer lists, and the page shows the other entry alone, without an error
C16_Witness ==
  /\ mounted = "/checkout"
  /\ loads = << >>
  /\ toasts = NoToast
  /\ localStorage.has
  /\ Cardinality(localStorage.value) = 2
  /\ Len(cartItems) = 1
  /\ meals[cartItems[1].id].is_available
  /\ \E e \in localStorage.value : ~meals[e[1]].is_available
  /\ <<cartItems[1].id, cartItems[1].quantity>> \in localStorage.value


\* C17: an order write that passes stores one new order with status pending
\* whose owner is the invocation's authenticated user, the user signed in;
\* afterwards a stored order keeps its owner, and its status changes only in a
\* step in which a status write issued by a user with the admin role returns:
\* nothing the shop's user does, a status update included, changes it.
C17_StatusChangedByAdminOnly ==
  [][/\ \A i \in 1..Len(calls) :
          (calls[i].pc = "insertOrder" /\ Advanced(i))
          => /\ Len(orders') = Len(orders) + 1
             /\ orders'[Len(orders')].status = "pending"
             /\ orders'[Len(orders')].user_id = calls[i].user
             /\ calls[i].user = session /\ session \in Users
     /\ \A k \in 1..Len(orders) :
          /\ Len(orders') >= Len(orders)
          /\ orders'[k].user_id = orders[k].user_id
          /\ orders'[k].status # orders[k].status
             => /\ adminUser \in Admins
                /\ \E i \in 1..Len(adminUpdates) :
                     /\ UpdateOrderStatusReturn(i)
                     /\ adminUpdates[i].id = k
                     /\ orders'[k].status = adminUpdates[i].status
     /\ \A id \in 1..MaxOrders, status \in Statuses :
          (UserUpdateRequest(id, status) /\ session \notin Admins) => orders' = orders]_vars

\* C17 happens: an order placed by the shop's user, with its lines, was set to
\* completed by the administrator
C17_Witness ==
  /\ Len(orders) = 1
  /\ orders[1].user_id = "u1"
  /\ orders[1].status = "completed"
  /\ LinesOf(1) # {}
  /\ adminUser \in Admins


\* C18: every change of a stored order's status made from a button of the
\* Admin page is one of pending to processing, pending to completed and
\* processing to completed, also while the list shown is out of date.
C18_OnlyOfferedTransitions ==
  [][\A k \in 1..Len(orders) :
       orders'[k].status # orders[k].status
       => <<orders[k].status, orders'[k].status>>
            \in {<<"pending", "processing">>, <<"pending", "completed">>,
                 <<"processing", "completed">>}]_vars

\* C19: the list the Admin page shows is in descending order of created_at,
\* every order in it carries its joined profile, and the pending and the
\* completed lists are the orders of that status in the same order.
C19_ListOrderedByCreationDescending ==
  /\ \A j, k \in 1..Len(adminOrders) :
       j < k => adminOrders[j].created_at > adminOrders[k].created_at
  /\ \A j \in 1..Len(adminOrders) :
       /\ adminOrders[j].id \in 1..Len(orders)
       /\ adminOrders[j].created_at = orders[adminOrders[j].id].created_at
       /\ adminOrders[j].profiles.email \in {adminOrders[j].user_id, "unknown"}
  /\ \A j, k \in 1..Len(pendingOrders) :
       j < k => pendingOrders[j].created_at > pendingOrders[k].created_at
  /\ \A j, k \in 1..Len(completedOrders) :
       j < k => completedOrders[j].created_at > completedOrders[k].created_at
  /\ {pendingOrders[j] : j \in 1..Len(pendingOrders)}
       = {adminOrders[j] : j \in {k \in 1..Len(adminOrders) : adminOrders[k].status = "pending"}}
  /\ {completedOrders[j] : j \in 1..Len(completedOrders)}
       = {adminOrders[j] : j \in {k \in 1..Len(adminOrders) : adminOrders[k].status = "completed"}}

\* C19 happens: three orders whose ids are not in the order of their creation
\* times are listed, two of them pending and one completed
C19_Witness ==
  /\ Len(adminOrders) = 3
  /\ adminOrders[1].id < adminOrders[2].id
  /\ Len(pendingOrders) = 2
  /\ Len(completedOrders) = 1
  /\ adminOrders[2].status = "completed"


\* C20: in the step in which an invocation sends its order-lines write, the
\* meals and quantities of the lines are those the cart in localStorage holds
\* at that moment for the meals the catalog lists.
C20_LinesEqualCartStore ==
  [][\A i \in 1..Len(calls) :
       (calls[i].pc = "insertOrder" /\ Advanced(i))
       => LET store == IF localStorage'.has THEN JSONparse(localStorage'.value)
                       ELSE EmptyCart
              matched == {m \in DOMAIN store : meals'[m].is_available}
          IN  {<<r.meal_id, r.quantity>> : r \in calls'[i].orderItems}
                = {<<m, store[m]>> : m \in matched}]_vars


\* C21: at most one submission is in flight at a time: while an invocation of
\* handlePlaceOrder is between setLoading(true) and its end, the place-order
\* button of the Checkout page on screen is disabled, and no second order
\* write is issued before the first invocation has ended.
C21_OneSubmissionInFlight ==
  /\ Len(calls) <= 1
  /\ (calls # << >> /\ Shown("/checkout")) => ButtonDisabled

\* C22: every invocation of handlePlaceOrder that ends, on whichever path
\* (no user, order write failed, lines write failed, success), leaves the
\* loading flag of the page it was called from reset to false.
C22_EveryPathResetsLoading ==
  [][\A i \in 1..Len(calls) : (calls[i].live /\ Ended(i)) => ~loading']_vars

====
